---- MODULE Spec2Model ----
(***************************************************************************)
(* Model of the West Coast Products new-listing monitor                    *)
(* (src/unnamed/part_000).  A cycle is one call of checkForNewProducts.    *)
(* JavaScript runs a call without interruption between two awaits; the     *)
(* calls in flight interleave at every await: the page fetch, the read of  *)
(* its body, an image fetch, the read of its body, and the return of       *)
(* fetchProducts to checkForNewProducts.  The process can be killed        *)
(* between any two statements, and exits on an unhandled rejection.        *)
(***************************************************************************)
EXTENDS Integers, Sequences, FiniteSets, TLC

\* ------------------------------------------------------------- bounds
\* Number of checkForNewProducts calls over a run: the initial call of every
\* process start and the timer ticks.
MaxCycles == 2

\* The same, for the runs that go through every config.json.
MaxCyclesSlack == 2

\* One slot for every call a run may start: nothing caps the calls in flight,
\* and a run ends when it has started MaxCycles calls.
Slots == 1..MaxCycles

\* ------------------------------------------------------------- page content
\* A product element of the listing page: the text of the name anchor, its
\* href, the data-mainimage attribute (path, size token, query string) and
\* the price text.  ok = FALSE is an element in which one of the selectors
\* matches nothing (querySelector returns null).
El(n, img, p) ==
  [ok |-> TRUE, name |-> n, href |-> <<"/products/", n>>,
   mainimage |-> [path |-> img, size |-> "respimgsize", query |-> "v=1"],
   price |-> p]

BadEl ==
  [ok |-> FALSE, name |-> "", href |-> <<>>,
   mainimage |-> [path |-> "", size |-> "", query |-> ""], price |-> ""]

\* The listings the remote page returns in this model.
Listings ==
  { <<>>,
    <<El("A", "a.png", "$1"), El("B", "b.png", "$2")>>,
    <<El("A", "a2.png", "$9"), El("B", "b.png", "$2"), El("C", "c.png", "$3")>>,
    <<El("C", "c.png", "$3"), El("D", "d.png", "$4"), El("E", "e.png", "$5")>>,
    <<El("A", "a.png", "$1"), El("B", "b.png", "$2"), El("B", "b.png", "$2")>>,
    <<El("A", "a.png", "$1"), BadEl>> }

Names == {"A", "B", "C", "D", "E"}

\* Outcome of `await fetch(URL)` and of the response.ok test.
PageFetchResponses == {"ok", "badstatus", "neterr"}

\* Outcome of `await response.text()` and what the page lists.
PageTextResponses ==
  {[status |-> "neterr", elems |-> <<>>]}
    \cup {[status |-> "ok", elems |-> l] : l \in Listings}

\* Outcome of `await fetch(imageUrl)`; the status of the response is not
\* looked at.
ImageFetchResponses == {"ok", "neterr"}

\* Outcome of `await imageResponse.arrayBuffer()` and of the writeFileSync of
\* the image: written; the body cannot be read; the write throws and leaves
\* no file (EACCES); the write throws and leaves a cut-off file (ENOSPC,
\* EFBIG).
ImageBodyResponses == {"ok", "neterr", "writeerr", "partial"}

\* Outcome of fs.writeFileSync(CACHE_FILE, ...), which opens the file with
\* O_TRUNC and then writes: written; it throws and the file is as it was; it
\* throws after the truncation or part of the write and the file is cut off.
SaveResponses == {"ok", "writeerr", "partial"}

\* What https://slack.com/api/chat.postMessage does with a post: the promise
\* of axios.post resolves, or it rejects (network error, non-2xx status).
SlackResponses == {"ok", "neterr"}

\* config.json as sendToSlack reads it: whether it has a `slack` section, and
\* the value of slack.enableBot ("undefined" when the key is missing).
Configs ==
  {[slack |-> FALSE, enableBot |-> "undefined"],
   [slack |-> TRUE, enableBot |-> "false"],
   [slack |-> TRUE, enableBot |-> "true"],
   [slack |-> TRUE, enableBot |-> "undefined"]}

\* ------------------------------------------------------------- state
VARIABLES
  store,      \* content of product_cache.json: a sequence of records
  files,      \* image ids that have a file in the images directory
  nextId,     \* source of fresh image ids (crypto.randomBytes(16))
  cyc,        \* per call in flight: its position and its locals
  started,    \* number of checkForNewProducts calls so far
  running,    \* the slot of the call inside its synchronous tail, 0 if none
  notified,   \* history: notifyNewProduct calls per product name
  downloads,  \* history: completed image downloads per product name
  config,     \* the parsed config.json, read once at load
  budget,     \* bounds the run: the number of calls it may start
  torn,       \* product_cache.json holds a cut-off JSON text; store is then
              \* the last content that could be read
  alive,      \* a process is running
  failed,     \* history, kept by the runs of SpecLive only: the product names
              \* whose image fetch failed
  cleanup,    \* the startup clean-up of the images directory: its position
              \* and the ids of the files that fs.readdir listed and
              \* fs.unlink has yet to delete
  posts       \* the axios.post calls made by sendToSlack, in the order they
              \* were made: the product name and "pending", or how the post
              \* settled

vars ==
  <<store, files, nextId, cyc, started, running, notified, downloads, config,
    budget, torn, alive, failed, cleanup, posts>>

\* ------------------------------------------------------------- helpers
\* imageUrl.replace('respimgsize', '145x').split('?')[0], prefixed 'https:'.
NormalizeImageUrl(m) ==
  [scheme |-> "https:", path |-> m.path,
   size |-> IF m.size = "respimgsize" THEN "145x" ELSE m.size]

\* 'https://wcproducts.com' + href
ProductPage(e) == <<"https://wcproducts.com">> \o e.href

\* Variant of Product that stamps the record where fetchProducts builds it.
ProductStamped(e, id) ==
  [name |-> e.name, productPage |-> ProductPage(e), imageId |-> id,
   imageUrl |-> NormalizeImageUrl(e.mainimage), price |-> e.price,
   cachedTime |-> started]

\* The object pushed on `products`; cachedTime 0 stands for an absent field.
Product(e, id) ==
  [name |-> e.name, productPage |-> ProductPage(e), imageId |-> id,
   imageUrl |-> NormalizeImageUrl(e.mainimage), price |-> e.price,
   cachedTime |-> 0]

\* cachedProducts.find(p => p.name === name): index of the first match, or 0.
FindIndex(s, n) ==
  IF \E k \in 1..Len(s) : s[k].name = n
  THEN CHOOSE k \in 1..Len(s) :
         s[k].name = n /\ \A m \in 1..(k - 1) : s[m].name # n
  ELSE 0

\* Variant of NeedsDownload with the second negation lost:
\* !cachedProduct || cachedProduct.imageId
NeedsDownloadNegationLost(snap, n) ==
  LET k == FindIndex(snap, n) IN k = 0 \/ snap[k].imageId # 0

\* !cachedProduct || !cachedProduct.imageId
NeedsDownload(snap, n) ==
  LET k == FindIndex(snap, n) IN k = 0 \/ snap[k].imageId = 0

\* String.prototype.toLowerCase on the product names of this model.
ToLower(n) ==
  IF n = "A" THEN "a"
  ELSE IF n = "B" THEN "b"
  ELSE IF n = "C" THEN "c"
  ELSE IF n = "D" THEN "d"
  ELSE IF n = "E" THEN "e"
  ELSE n

\* Variant of IsCached that compares the names without regard to case.
IsCachedIgnoreCase(cached, p) ==
  \E k \in 1..Len(cached) : ToLower(cached[k].name) = ToLower(p.name)

\* cachedProducts.some(cachedProduct => cachedProduct.name === product.name)
IsCached(cached, p) == \E k \in 1..Len(cached) : cached[k].name = p.name

\* Variant of Diff whose filter lost its negation: it keeps the known.
RECURSIVE DiffKeepsKnown(_, _)
DiffKeepsKnown(current, cached) ==
  IF current = <<>> THEN <<>>
  ELSE LET rest == DiffKeepsKnown(Tail(current), cached)
       IN IF IsCached(cached, Head(current)) THEN <<Head(current)>> \o rest
          ELSE rest

\* currentProducts.filter(product => !cachedProducts.some(...))
RECURSIVE Diff(_, _)
Diff(current, cached) ==
  IF current = <<>> THEN <<>>
  ELSE LET rest == Diff(Tail(current), cached)
       IN IF IsCached(cached, Head(current)) THEN rest
          ELSE <<Head(current)>> \o rest

\* new Date().toISOString(): the wall clock, read as the number of cycles
\* started so far (never 0).
Now == started

NamesOf(s) == [k \in 1..Len(s) |-> s[k].name]
NameSet(s) == {s[k].name : k \in 1..Len(s)}
Range(s) == {s[k] : k \in 1..Len(s)}
Count(s, x) == Cardinality({k \in 1..Len(s) : s[k] = x})
IsPrefix(s, t) == Len(s) <= Len(t) /\ \A k \in 1..Len(s) : t[k] = s[k]

\* ------------------------------------------------------------- cycle state
\* A free slot.  Of a call in flight: pc its position; elems the product
\* elements of the page; i the loop index; products, snap the `products` and
\* `cachedProducts` of fetchProducts; current, cached, newProducts, j the
\* locals of checkForNewProducts and the forEach index; outcome how
\* fetchProducts ended; saved how the store write ended; dl, sent the names
\* this call downloaded an image for and called notifyNewProduct for; slack
\* how sendToSlack ended for each name of sent.  Two history fields, which
\* no step reads: atStart, the store as it was when the call started, and
\* overlapped, whether another call was in flight with this one.
\* The positions: "fetchPage" at `await fetch(URL)`, "readPage" at
\* `await response.text()`, "fetchImage" at `await fetch(imageUrl)`,
\* "readImage" at `await imageResponse.arrayBuffer()`, "resume" at
\* `await fetchProducts()` with fetchProducts returned, "notify", "save" and
\* "return" inside the synchronous tail of checkForNewProducts, "rejected"
\* once the call has ended in a rejection nothing handles.
Free ==
  [pc |-> "free", elems |-> <<>>, i |-> 0, products |-> <<>>, snap |-> <<>>,
   current |-> <<>>, cached |-> <<>>, newProducts |-> <<>>, j |-> 0,
   outcome |-> "", saved |-> "", dl |-> <<>>, sent |-> <<>>, slack |-> <<>>,
   atStart |-> <<>>, overlapped |-> FALSE]

\* A call at `await fetch(URL)`, started on the store as it is.
Started == [Free EXCEPT !.pc = "fetchPage", !.atStart = store]

\* The for loop of fetchProducts from element i on, up to the next await,
\* the first element that throws or the end of the list.
RECURSIVE Loop(_, _, _, _)
Loop(elems, i, products, snap) ==
  IF i > Len(elems) THEN [at |-> "end", i |-> i, products |-> products]
  ELSE IF ~elems[i].ok THEN [at |-> "throw", i |-> i, products |-> <<>>]
  ELSE IF NeedsDownload(snap, elems[i].name)
       THEN [at |-> "await", i |-> i, products |-> products]
  ELSE Loop(elems, i + 1,
            Append(products,
                   Product(elems[i], snap[FindIndex(snap, elems[i].name)].imageId)),
            snap)

\* sendToSlack up to its first await: "disabled" when the guard
\* `config.slack?.enableBot === false` returns; "rejected" when reading
\* config.slack.token throws a TypeError, which rejects the promise nobody
\* awaits; otherwise "posted": axios.post is called and sendToSlack yields at
\* its await.
SendToSlack(cfg) ==
  IF cfg.slack /\ cfg.enableBot = "false" THEN "disabled"
  ELSE IF ~cfg.slack THEN "rejected"
  ELSE "posted"

\* Variant of SlackOutcome without the .catch of line 182: a post that fails
\* rejects the promise of sendToSlack.
SlackOutcomeUncaught(resp) == IF resp = "ok" THEN "delivered" ELSE "rejected"

\* How a post ends for sendToSlack: the .then logs the success, the .catch
\* logs the failure, and the promise of sendToSlack resolves either way.
SlackOutcome(resp) == IF resp = "ok" THEN "delivered" ELSE "logged"

\* The index in current of the j-th record that the filter of lines 111-113
\* lets through: newProducts[j] is that object, not a copy of it.
RECURSIVE NewIndex(_, _, _, _)
NewIndex(current, cached, j, k) ==
  IF k > Len(current) THEN 0
  ELSE IF IsCached(cached, current[k])
       THEN NewIndex(current, cached, j, k + 1)
  ELSE IF j = 1 THEN k
  ELSE NewIndex(current, cached, j - 1, k + 1)

\* The posts that have settled: those still pending end with the process.
Settled(ps) == SelectSeq(ps, LAMBDA q : q.state # "pending")

\* The notification gate of checkForNewProducts: cachedProducts.length > 0
ShouldNotify(cached) == Len(cached) > 0

\* fetchProducts returns `current` (line 82, or [] from its catch, line 85):
\* the continuation of `await fetchProducts()` is queued.
EndFetch(c, current, outcome) ==
  [c EXCEPT !.pc = "resume", !.current = current, !.outcome = outcome]

\* Variant of AfterFetch without the loadCache of line 109: it diffs against
\* the cache that fetchProducts loaded before its image fetches.
AfterFetchStale(c) ==
  LET cached == c.snap
      new == Diff(c.current, cached)
  IN IF torn
     THEN [c EXCEPT !.pc = "return", !.outcome = "loadfail"]
     ELSE
     [c EXCEPT !.pc = IF ShouldNotify(cached) /\ Len(new) > 0 THEN "notify"
                      ELSE IF Len(new) > 0 THEN "save" ELSE "return",
               !.cached = cached, !.newProducts = new, !.j = 1]

\* checkForNewProducts from the return of fetchProducts up to its first
\* statement with an effect: loadCache, the filter, the two length tests.
\* On a cut-off file JSON.parse throws out of loadCache and the call rejects.
AfterFetch(c) ==
  LET cached == store
      new == Diff(c.current, cached)
  IN IF torn
     THEN [c EXCEPT !.pc = "return", !.outcome = "loadfail"]
     ELSE
     [c EXCEPT !.pc = IF ShouldNotify(cached) /\ Len(new) > 0 THEN "notify"
                      ELSE IF Len(new) > 0 THEN "save" ELSE "return",
               !.cached = cached, !.newProducts = new, !.j = 1]

\* Variant of Advance whose catch returns the products built so far
\* instead of [].
AdvanceKeepsPartial(c, i, products) ==
  LET r == Loop(c.elems, i, products, c.snap)
  IN IF r.at = "await"
     THEN [c EXCEPT !.pc = "fetchImage", !.i = r.i, !.products = r.products]
     ELSE IF r.at = "throw" THEN EndFetch(c, products, "extractfail")
     ELSE EndFetch(c, r.products, "ok")

\* The state of a call after the loop ran from element i on: suspended at
\* the next image fetch, or out of fetchProducts through the catch (which
\* returns []) or through `return products`.
Advance(c, i, products) ==
  LET r == Loop(c.elems, i, products, c.snap)
  IN IF r.at = "await"
     THEN [c EXCEPT !.pc = "fetchImage", !.i = r.i, !.products = r.products]
     ELSE IF r.at = "throw" THEN EndFetch(c, <<>>, "extractfail")
     ELSE EndFetch(c, r.products, "ok")

\* The call ends in a rejection: loadCache (line 109) or saveCache (line 131)
\* threw out of checkForNewProducts, whose promise nobody holds, or a
\* sendToSlack it made rejected.
Rejects(c) ==
  \/ c.outcome = "loadfail"
  \/ c.saved \in {"writeerr", "partial"}
  \/ "rejected" \in Range(c.slack)

InTail(c) == c.pc \in {"notify", "save", "return"}
InFlight == {s \in Slots : cyc[s].pc \notin {"free", "rejected"}}

\* An unhandled rejection is pending: node ends the process with exit code 1
\* once the microtask queue is empty.
Dying ==
  \/ \E s \in Slots : cyc[s].pc = "rejected"
  \/ \E k \in 1..Len(posts) : posts[k].state = "rejected"

\* A continuation of `await fetchProducts()` is in the microtask queue: no
\* timer or callback runs before it.
ResumePending == \E s \in Slots : cyc[s].pc = "resume"

\* A timer or an I/O callback can run: no call is inside its synchronous
\* tail, the microtask queue is empty and no rejection is waiting to end the
\* process.
LoopIdle == alive /\ running = 0 /\ ~ResumePending /\ ~Dying

\* ------------------------------------------------------------- actions
\* No clean-up under way.
NoCleanup == [pc |-> "idle", doomed |-> {}, err |-> FALSE]

\* if (loadCache().length === 0) fs.readdir(IMAGES_DIR, ...): the listing is
\* requested when the store is found empty, and its callback runs later.
StartCleanup(cached) ==
  IF Len(cached) = 0 THEN [NoCleanup EXCEPT !.pc = "readdir"] ELSE NoCleanup

\* What a first cycle over the listing A, B left behind: its two records,
\* which carry no cachedTime, and the two image files.
Bootstrapped ==
  [store |-> <<Product(El("A", "a.png", "$1"), 1),
               Product(El("B", "b.png", "$2"), 2)>>,
   files |-> {1, 2}]

\* A directory the program has not run in.
Fresh == [store |-> <<>>, files |-> {}]

\* A start of the program in the directory d: the startup code has loaded
\* the store, requested the listing of the images directory if it found the
\* store empty, set the timer and made the initial call, which is at
\* `await fetch(URL)`.
Boot(d) ==
  /\ started = 1
  /\ store = d.store
  /\ files = d.files
  /\ nextId = Cardinality(d.files) + 1
  /\ downloads = [n \in Names |-> IF n \in NameSet(d.store) THEN 1 ELSE 0]
  /\ cyc = [s \in Slots |-> IF s = 1 THEN Started ELSE Free]
  /\ running = 0
  /\ notified = [n \in Names |-> 0]
  /\ torn = FALSE
  /\ alive = TRUE
  /\ failed = {}
  /\ cleanup = StartCleanup(store)
  /\ posts = <<>>

\* A deployment whose config.json switches the bot off: notifications are
\* counted where notifyNewProduct is called, and no post is ever made.
Init ==
  /\ Boot(Fresh) \/ Boot(Bootstrapped)
  /\ config = [slack |-> TRUE, enableBot |-> "false"]
  /\ budget = MaxCycles

\* Any config.json, in a directory where a first cycle has run.
InitSlack ==
  /\ Boot(Bootstrapped)
  /\ config \in Configs
  /\ budget = MaxCyclesSlack

\* The timer fires and a new call runs up to `await fetch(URL)`, whatever
\* the earlier calls are doing: it takes the first slot nobody is in.
StartCall ==
  /\ LoopIdle
  /\ \E s \in Slots :
       /\ cyc[s].pc = "free"
       /\ \A t \in Slots : t < s => cyc[t].pc # "free"
       /\ cyc' = [t \in Slots |->
                    IF t = s
                    THEN [Started EXCEPT !.overlapped = InFlight # {}]
                    ELSE IF t \in InFlight
                    THEN [cyc[t] EXCEPT !.overlapped = TRUE]
                    ELSE cyc[t]]
  /\ UNCHANGED <<store, files, nextId, running, notified, downloads, config,
                 budget, torn, alive, failed, cleanup, posts>>

\* setInterval(checkForNewProducts, 180000), as long as the run may start
\* calls.
Tick ==
  /\ started < budget
  /\ StartCall
  /\ started' = started + 1

\* `await fetch(URL)` settles: on a response that is ok the call goes on to
\* read the body, otherwise the throw is caught and fetchProducts returns [].
PageFetch(s, resp) ==
  /\ LoopIdle
  /\ cyc[s].pc = "fetchPage"
  /\ cyc' = [cyc EXCEPT ![s] =
               IF resp = "ok" THEN [cyc[s] EXCEPT !.pc = "readPage"]
               ELSE EndFetch(cyc[s], <<>>, "fetchfail")]
  /\ UNCHANGED <<store, files, nextId, started, running, notified, downloads,
                 config, budget, torn, alive, failed, cleanup, posts>>

\* `await response.text()` settles: the page is parsed, the cache is loaded
\* (line 42) and the loop runs to its first image fetch or to the return of
\* fetchProducts.  A throw of that loadCache goes to the catch like any other.
PageText(s, resp) ==
  /\ LoopIdle
  /\ cyc[s].pc = "readPage"
  /\ cyc' = [cyc EXCEPT ![s] =
               IF resp.status # "ok" THEN EndFetch(cyc[s], <<>>, "fetchfail")
               ELSE IF torn THEN EndFetch(cyc[s], <<>>, "extractfail")
               ELSE Advance([cyc[s] EXCEPT !.elems = resp.elems,
                                           !.snap = store],
                            1, <<>>)]
  /\ UNCHANGED <<store, files, nextId, started, running, notified, downloads,
                 config, budget, torn, alive, failed, cleanup, posts>>

\* `await fetch(imageUrl)` settles: the call goes on to read the body
\* whatever the status of the response, or the fetch threw and fetchProducts
\* returns [].
ImageFetchStep(s, resp) ==
  /\ LoopIdle
  /\ cyc[s].pc = "fetchImage"
  /\ cyc' = [cyc EXCEPT ![s] =
               IF resp = "ok" THEN [cyc[s] EXCEPT !.pc = "readImage"]
               ELSE EndFetch(cyc[s], <<>>, "imagefail")]
  /\ UNCHANGED <<store, files, nextId, started, running, notified, downloads,
                 config, budget, torn, alive, cleanup, posts>>

ImageFetch(s, resp) == ImageFetchStep(s, resp) /\ UNCHANGED failed

\* `await imageResponse.arrayBuffer()` settles and the file is written, the
\* record pushed and the loop goes on; or one of the two throws and the catch
\* of fetchProducts returns [], with a cut-off file left behind when the
\* write had begun.  The fresh id is drawn here: nothing reads it before the
\* file is written.
ImageBodyStep(s, resp) ==
  /\ LoopIdle
  /\ cyc[s].pc = "readImage"
  /\ LET me == cyc[s]
         e == me.elems[me.i]
     IN /\ cyc' = [cyc EXCEPT ![s] =
                     IF resp = "ok"
                     THEN Advance([me EXCEPT !.dl = Append(@, e.name)],
                                  me.i + 1,
                                  Append(me.products, Product(e, nextId)))
                     ELSE EndFetch(me, <<>>, "imagefail")]
        /\ nextId' = IF resp \in {"ok", "partial"} THEN nextId + 1 ELSE nextId
        /\ files' = IF resp \in {"ok", "partial"} THEN files \cup {nextId}
                    ELSE files
        /\ downloads' = IF resp = "ok"
                        THEN [downloads EXCEPT ![e.name] = @ + 1]
                        ELSE downloads
  /\ UNCHANGED <<store, started, running, notified, config, budget, torn,
                 alive, cleanup, posts>>

ImageBody(s, resp) == ImageBodyStep(s, resp) /\ UNCHANGED failed

\* The continuation of `await fetchProducts()` runs: checkForNewProducts
\* loads the cache as it is now and goes up to its first effect.  From here
\* to its return the call runs without interruption.
Resume(s) ==
  /\ alive
  /\ running = 0
  /\ cyc[s].pc = "resume"
  /\ cyc' = [cyc EXCEPT ![s] = AfterFetch(cyc[s])]
  /\ running' = s
  /\ UNCHANGED <<store, files, nextId, started, notified, downloads, config,
                 budget, torn, alive, failed, cleanup, posts>>

\* Where the call goes after notifyNewProduct returned: sendToSlack is not
\* awaited, so whatever became of it the forEach takes the next record, and
\* after the last one the call goes on to the store write.
ForEachNext(c, out) ==
  IF c.j = Len(c.newProducts) THEN "save" ELSE "notify"

\* One iteration of newProducts.forEach: stamp cachedTime on the record,
\* which currentProducts holds too, and notifyNewProduct, which runs
\* sendToSlack up to its return, its throw or its `await axios.post`.
Notify(s) ==
  /\ running = s
  /\ cyc[s].pc = "notify"
  /\ LET me == cyc[s]
         p == me.newProducts[me.j]
         k == NewIndex(me.current, me.cached, me.j, 1)
         out == SendToSlack(config)
     IN /\ notified' = [notified EXCEPT ![p.name] = @ + 1]
        /\ cyc' = [cyc EXCEPT ![s] =
                     [me EXCEPT !.newProducts[me.j].cachedTime = Now,
                                !.current[k].cachedTime = Now,
                                !.sent = Append(@, p.name),
                                !.slack = Append(@, out),
                                !.j = @ + 1,
                                !.pc = ForEachNext(me, out)]]
        /\ posts' = IF out = "posted"
                    THEN Append(posts, [name |-> p.name, state |-> "pending"])
                    ELSE posts
  /\ UNCHANGED <<store, files, nextId, started, running, downloads, config,
                 budget, torn, alive, failed, cleanup>>

\* A post settles, in a turn of the event loop of its own: the .then or the
\* .catch of lines 179-184 runs and sendToSlack ends.
SlackSettle(resp) ==
  /\ LoopIdle
  /\ \E k \in 1..Len(posts) :
       /\ posts[k].state = "pending"
       /\ posts' = [posts EXCEPT ![k].state = SlackOutcome(resp)]
  /\ UNCHANGED <<store, files, nextId, cyc, started, running, notified,
                 downloads, config, budget, torn, alive, failed, cleanup>>

\* Variant of SaveCache that writes the new records alone.
SaveCacheNewOnly(cached, new) == new

\* The array handed to saveCache: [...cachedProducts, ...newProducts]
SaveCache(cached, new) == cached \o new

\* if (newProducts.length > 0) saveCache(...): the file is written, or
\* writeFileSync throws and the file stays as it was, or it throws with the
\* file cut off.
Save(s, resp) ==
  /\ running = s
  /\ cyc[s].pc = "save"
  /\ store' = IF resp = "ok" THEN SaveCache(cyc[s].cached, cyc[s].newProducts)
              ELSE store
  /\ torn' = IF resp = "ok" THEN FALSE
             ELSE IF resp = "partial" THEN TRUE ELSE torn
  /\ cyc' = [cyc EXCEPT ![s].pc = "return", ![s].saved = resp]
  /\ UNCHANGED <<files, nextId, started, running, notified, downloads,
                 config, budget, alive, failed, cleanup, posts>>

\* checkForNewProducts returns and its locals are gone, or it ends in a
\* rejection, which stays pending until the microtask queue is empty.
Return(s) ==
  /\ running = s
  /\ cyc[s].pc = "return"
  /\ cyc' = [cyc EXCEPT ![s] =
               IF Rejects(cyc[s]) THEN [Free EXCEPT !.pc = "rejected"]
               ELSE Free]
  /\ running' = 0
  /\ UNCHANGED <<store, files, nextId, started, notified, downloads, config,
                 budget, torn, alive, failed, cleanup, posts>>

\* The microtask queue is empty and a rejection is unhandled: the process
\* ends with exit code 1 and every call in flight is lost with it.
Exit ==
  /\ alive
  /\ running = 0
  /\ Dying
  /\ ~ResumePending
  /\ alive' = FALSE
  /\ cyc' = [s \in Slots |-> Free]
  /\ cleanup' = NoCleanup
  /\ posts' = Settled(posts)
  /\ UNCHANGED <<store, files, nextId, started, running, notified, downloads,
                 config, budget, torn, failed>>

\* The process is started again, after it ended or after a kill between any
\* two statements: every call in flight is lost, the files stay, and the
\* startup code runs: it requests the clean-up if it finds the store empty,
\* sets the timer and makes the initial call.  On a cut-off file the
\* loadCache of the startup code throws and the new process ends there.
Crash ==
  /\ started < budget
  /\ started' = IF torn THEN started ELSE started + 1
  /\ cyc' = [s \in Slots |-> IF s = 1 /\ ~torn THEN Started ELSE Free]
  /\ running' = 0
  /\ alive' = ~torn
  /\ cleanup' = IF torn THEN NoCleanup ELSE StartCleanup(store)
  /\ posts' = Settled(posts)
  /\ UNCHANGED <<store, files, nextId, notified, downloads, config, budget,
                 torn, failed>>

\* The process is killed inside the writeFileSync of saveCache, after the
\* truncation and before the last byte.
KillDuringSave(s) ==
  /\ running = s
  /\ cyc[s].pc = "save"
  /\ torn' = TRUE
  /\ alive' = FALSE
  /\ cyc' = [t \in Slots |-> Free]
  /\ running' = 0
  /\ cleanup' = NoCleanup
  /\ posts' = Settled(posts)
  /\ UNCHANGED <<store, files, nextId, started, notified, downloads, config,
                 budget, failed>>

\* How an fs.readdir or an fs.unlink of the clean-up ends.
FsResponses == {"ok", "err"}

\* The readdir that the startup code requested is carried out, on a thread
\* of its own: it lists the files that are in the images directory now, or
\* it fails.
ReadDir(resp) ==
  /\ alive
  /\ cleanup.pc = "readdir"
  /\ cleanup' = IF resp = "ok"
                THEN [cleanup EXCEPT !.pc = "listed", !.doomed = files]
                ELSE [cleanup EXCEPT !.pc = "listed", !.err = TRUE]
  /\ UNCHANGED <<store, files, nextId, cyc, started, running, notified,
                 downloads, config, budget, torn, alive, failed, posts>>

\* The callback of fs.readdir runs: on an error it throws, and the exception
\* nothing catches ends the process with exit code 1; otherwise it requests
\* an fs.unlink of every file of the listing.
ReadDirCallback ==
  /\ LoopIdle
  /\ cleanup.pc = "listed"
  /\ IF cleanup.err
     THEN /\ alive' = FALSE
          /\ cyc' = [s \in Slots |-> Free]
          /\ cleanup' = NoCleanup
          /\ posts' = Settled(posts)
     ELSE /\ cleanup' = IF cleanup.doomed = {} THEN NoCleanup
                        ELSE [cleanup EXCEPT !.pc = "unlink"]
          /\ UNCHANGED <<cyc, alive, posts>>
  /\ UNCHANGED <<store, files, nextId, started, running, notified, downloads,
                 config, budget, torn, failed>>

\* One of the requested fs.unlink is carried out, on a thread of its own:
\* the file is removed, and the callback that runs later does nothing; or
\* the unlink fails, the file stays and its callback will throw.
Unlink(resp) ==
  /\ alive
  /\ cleanup.pc = "unlink"
  /\ \E f \in cleanup.doomed :
       /\ files' = IF resp = "ok" THEN files \ {f} ELSE files
       /\ cleanup' =
            IF cleanup.doomed = {f} /\ resp = "ok" /\ ~cleanup.err
            THEN NoCleanup
            ELSE [cleanup EXCEPT !.doomed = @ \ {f},
                                 !.err = @ \/ resp = "err"]
  /\ UNCHANGED <<store, nextId, cyc, started, running, notified, downloads,
                 config, budget, torn, alive, failed, posts>>

\* The callback of an fs.unlink that failed runs and throws: the exception
\* nothing catches ends the process with exit code 1, whatever unlinks are
\* still to be carried out.
UnlinkCallback ==
  /\ LoopIdle
  /\ cleanup.pc = "unlink"
  /\ cleanup.err
  /\ alive' = FALSE
  /\ cyc' = [s \in Slots |-> Free]
  /\ cleanup' = NoCleanup
  /\ posts' = Settled(posts)
  /\ UNCHANGED <<store, files, nextId, started, running, notified, downloads,
                 config, budget, torn, failed>>

Next ==
  \/ Tick
  \/ \E s \in Slots, resp \in PageFetchResponses : PageFetch(s, resp)
  \/ \E s \in Slots, resp \in PageTextResponses : PageText(s, resp)
  \/ \E s \in Slots, resp \in ImageFetchResponses : ImageFetch(s, resp)
  \/ \E s \in Slots, resp \in ImageBodyResponses : ImageBody(s, resp)
  \/ \E s \in Slots : Resume(s)
  \/ \E s \in Slots : Notify(s)
  \/ \E s \in Slots, resp \in SaveResponses : Save(s, resp)
  \/ \E s \in Slots : Return(s)
  \/ Exit
  \/ Crash
  \/ \E s \in Slots : KillDuringSave(s)
  \/ \E resp \in FsResponses : ReadDir(resp)
  \/ ReadDirCallback
  \/ \E resp \in FsResponses : Unlink(resp)
  \/ UnlinkCallback

Spec == Init /\ [][Next]_vars

\* The steps of a run that starts on a store that is not empty, under any
\* config.json: the startup code requests no clean-up, and the posts that
\* sendToSlack makes settle.
NextSlack ==
  \/ Tick
  \/ \E s \in Slots, resp \in PageFetchResponses : PageFetch(s, resp)
  \/ \E s \in Slots, resp \in PageTextResponses : PageText(s, resp)
  \/ \E s \in Slots, resp \in ImageFetchResponses : ImageFetch(s, resp)
  \/ \E s \in Slots, resp \in ImageBodyResponses : ImageBody(s, resp)
  \/ \E s \in Slots : Resume(s)
  \/ \E s \in Slots : Notify(s)
  \/ \E s \in Slots, resp \in SaveResponses : Save(s, resp)
  \/ \E s \in Slots : Return(s)
  \/ Exit
  \/ Crash
  \/ \E s \in Slots : KillDuringSave(s)
  \/ \E resp \in SlackResponses : SlackSettle(resp)

SpecSlack == InitSlack /\ [][NextSlack]_vars

\* ------------------------------------------------------------- the diff
\* The filter of checkForNewProducts on its own: a call that has its
\* currentProducts, over any store.  Names differing in case only are among
\* the inputs.
MaxKnown == 2
MaxCurrent == 3
DiffNames == {"A", "a", "B", "C"}

\* The records of the names ns, with image ids from `from` on.
Records(ns, from) ==
  [k \in 1..Len(ns) |-> Product(El(ns[k], "x.png", "$1"), from + k - 1)]

SeqsUpTo(S, n) == UNION {[1..m -> S] : m \in 0..n}

InitDiff ==
  /\ \E known \in SeqsUpTo(DiffNames \ {"C"}, MaxKnown),
        current \in SeqsUpTo(DiffNames, MaxCurrent) :
       /\ store = Records(known, 1)
       /\ files = 1..(Len(known) + Len(current))
       /\ nextId = Len(known) + Len(current) + 1
       /\ cyc = [s \in Slots |->
                  IF s = 1
                  THEN EndFetch(Started, Records(current, Len(known) + 1), "ok")
                  ELSE Free]
  /\ started = 1
  /\ running = 0
  /\ notified = [n \in Names |-> 0]
  /\ downloads = [n \in Names |-> 0]
  /\ config = [slack |-> TRUE, enableBot |-> "false"]
  /\ budget = 1
  /\ torn = FALSE
  /\ alive = TRUE
  /\ failed = {}
  /\ cleanup = NoCleanup
  /\ posts = <<>>

\* Lines 109-113 applied to the call's currentProducts and the store; applied
\* again by a call that has been through them.
Filter(s) ==
  /\ running \in {0, s}
  /\ cyc[s].pc \in {"resume", "notify", "save", "return"}
  /\ cyc' = [cyc EXCEPT ![s] = AfterFetch(cyc[s])]
  /\ running' = s
  /\ UNCHANGED <<store, files, nextId, started, notified, downloads, config,
                 budget, torn, alive, failed, cleanup, posts>>

NextDiff == \E s \in Slots : Filter(s)

SpecDiff == InitDiff /\ [][NextDiff]_vars

\* ------------------------------------------------------------- retries
\* The runs of a process that is not killed and whose store writes succeed,
\* in a directory where a first cycle has run and on a page that keeps
\* listing C: the timer fires until the run has started all its calls, and
\* the fetches that settle before the last of them has started can fail.
LiveListings ==
  {l \in Listings : (\A k \in 1..Len(l) : l[k].ok) /\ "C" \in NameSet(l)}

LivePageTextResponses ==
  {r \in PageTextResponses : r.status = "ok" => r.elems \in LiveListings}

InitLive ==
  /\ Boot(Bootstrapped)
  /\ config = [slack |-> TRUE, enableBot |-> "false"]
  /\ budget = MaxCycles

FetchesSucceed == started >= budget

PageFetchLive(s, resp) ==
  /\ FetchesSucceed => resp = "ok"
  /\ PageFetch(s, resp)

PageTextLive(s, resp) ==
  /\ FetchesSucceed => resp.status = "ok"
  /\ PageText(s, resp)

\* ImageFetch, with the name of a failed fetch added to the history.
ImageFetchLive(s, resp) ==
  /\ FetchesSucceed => resp = "ok"
  /\ ImageFetchStep(s, resp)
  /\ failed' = IF resp = "ok" THEN failed
               ELSE failed \cup {cyc[s].elems[cyc[s].i].name}

\* ImageBody, with the name of a failed fetch added to the history.
ImageBodyLive(s, resp) ==
  /\ FetchesSucceed => resp = "ok"
  /\ ImageBodyStep(s, resp)
  /\ failed' = IF resp = "ok" THEN failed
               ELSE failed \cup {cyc[s].elems[cyc[s].i].name}

NextLive ==
  \/ Tick
  \/ \E s \in Slots, resp \in PageFetchResponses : PageFetchLive(s, resp)
  \/ \E s \in Slots, resp \in LivePageTextResponses : PageTextLive(s, resp)
  \/ \E s \in Slots, resp \in ImageFetchResponses : ImageFetchLive(s, resp)
  \/ \E s \in Slots, resp \in ImageBodyResponses : ImageBodyLive(s, resp)
  \/ \E s \in Slots : Resume(s)
  \/ \E s \in Slots : Notify(s)
  \/ \E s \in Slots : Save(s, "ok")
  \/ \E s \in Slots : Return(s)

\* The timer fires, every fetch settles, and the synchronous code of a call
\* runs on.
FairLive ==
  /\ WF_vars(Tick)
  /\ \A s \in Slots :
       /\ WF_vars(\E resp \in PageFetchResponses : PageFetchLive(s, resp))
       /\ WF_vars(\E resp \in LivePageTextResponses : PageTextLive(s, resp))
       /\ WF_vars(\E resp \in ImageFetchResponses : ImageFetchLive(s, resp))
       /\ WF_vars(\E resp \in ImageBodyResponses : ImageBodyLive(s, resp))
       /\ WF_vars(Resume(s))
       /\ WF_vars(Notify(s))
       /\ WF_vars(Save(s, "ok"))
       /\ WF_vars(Return(s))

SpecLive == InitLive /\ [][NextLive]_vars /\ FairLive

\* ------------------------------------------------------------- properties
\* A call that has left fetchProducts with a result and is past its store
\* write, if any: its effects are complete and it has not returned yet.
AtReturn(c) == c.pc = "return"

\* The store write of the call threw.
SaveFailed(c) == c.saved \in {"writeerr", "partial"}

\* The number of image downloads for the name n by the calls in flight.
DownloadsInFlight(n) ==
  Cardinality({p \in UNION {{s} \X (1..Len(cyc[s].dl)) : s \in Slots} :
                 cyc[p[1]].dl[p[2]] = n})

\* C1: over the whole run, crashes and restarts included, notifyNewProduct
\* is called at most once for each product name.
C1_NotifiedAtMostOnce == \A n \in Names : notified[n] <= 1

\* C2: a call notifies a record only after the store write that contains the
\* record: every name a call has notified is in the persisted store.
C2_PersistBeforeNotify ==
  \A s \in Slots : \A k \in 1..Len(cyc[s].sent) :
    cyc[s].sent[k] \in NameSet(store)

\* C3: a call that started on an empty store and whose fetch and store write
\* succeeded has sent no notification when it returns, and the store then
\* holds one record per listed product; and a call whose loaded known-set is
\* empty never calls notifyNewProduct.
C3_FirstRunSuppression ==
  \A s \in Slots :
    LET c == cyc[s] IN
    /\ (InTail(c) /\ c.cached = <<>>) => c.sent = <<>>
    /\ (AtReturn(c) /\ c.atStart = <<>> /\ c.outcome = "ok"
          /\ ~SaveFailed(c))
         => /\ c.sent = <<>>
            /\ NamesOf(store) = [k \in 1..Len(c.elems) |-> c.elems[k].name]

\* C4: a successful call that finds the store holding A and B, both with an
\* image id, and extracts A, B, C notifies C alone, leaves the store holding
\* the two old records followed by C, and downloads no image for A or B.
C4_SteadyState ==
  \A s \in Slots :
    LET c == cyc[s] IN
    (/\ AtReturn(c) /\ c.outcome = "ok" /\ ~SaveFailed(c)
     /\ NamesOf(c.snap) = <<"A", "B">> /\ c.cached = c.snap
     /\ NamesOf(c.current) = <<"A", "B", "C">>)
    => /\ c.sent = <<"C">>
       /\ NamesOf(store) = <<"A", "B", "C">>
       /\ SubSeq(store, 1, 2) = c.cached
       /\ c.dl = <<"C">>

C4_Witness ==
  \E s \in Slots :
    /\ AtReturn(cyc[s]) /\ cyc[s].outcome = "ok" /\ cyc[s].saved = "ok"
    /\ NamesOf(cyc[s].snap) = <<"A", "B">> /\ cyc[s].cached = cyc[s].snap
    /\ NamesOf(cyc[s].current) = <<"A", "B", "C">>
    /\ notified = [n \in Names |-> IF n = "C" THEN 1 ELSE 0]
    /\ downloads["A"] = 1 /\ downloads["B"] = 1 /\ downloads["C"] = 1

\* C5: when the image download or write fails for the last product of a
\* batch of new products C, D, E and the prior store holds A and B, the call
\* still persists and notifies C and D, and E is absent from the store.
C5_PartialFailureIsolation ==
  \A s \in Slots :
    LET c == cyc[s] IN
    (/\ AtReturn(c) /\ c.outcome = "imagefail" /\ ~SaveFailed(c)
     /\ NamesOf(c.cached) = <<"A", "B">>
     /\ [k \in 1..Len(c.elems) |-> c.elems[k].name] = <<"C", "D", "E">>
     /\ c.dl = <<"C", "D">>)
    => /\ NamesOf(store) = <<"A", "B", "C", "D">>
       /\ c.sent = <<"C", "D">>

\* C6: the persisted store never holds two records with the same name.
C6_StoreNamesUnique ==
  \A a, b \in 1..Len(store) : a # b => store[a].name # store[b].name

\* C7: a call whose page fetch or extraction failed goes from the return of
\* fetchProducts to its own with nothing to notify or save and ends without
\* a rejection; when it returns the store is the one it started on, unless a
\* call that overlapped it has appended records meanwhile.  A call before
\* its diff step, abandoned or not, has written and notified nothing.  Every
\* step that writes the store or notifies is taken by a call past its diff
\* step whose fetch and extraction did not fail.  The return of a failed
\* call leaves the process up and the event loop idle, where the timer can
\* fire as long as the run may start calls, and a call that starts carries
\* nothing over: it is at `await fetch(URL)` with empty locals.
C7_FailedCycle ==
  /\ [](/\ \A s \in Slots :
            LET c == cyc[s] IN
            /\ c.outcome \in {"fetchfail", "extractfail"}
                 => /\ c.pc \in {"resume", "return"}
                    /\ c.newProducts = <<>> /\ c.sent = <<>> /\ c.saved = ""
                    /\ ~Rejects(c)
                    /\ AtReturn(c)
                         => /\ store = c.cached
                            /\ IsPrefix(c.atStart, store)
                            /\ ~c.overlapped => store = c.atStart
            /\ c.pc \in {"fetchPage", "readPage", "fetchImage", "readImage",
                          "resume"}
                 => /\ c.sent = <<>> /\ c.saved = ""
                    /\ ~c.overlapped => store = c.atStart
        /\ (LoopIdle /\ started < budget) => ENABLED Tick)
  /\ [][/\ (store' # store \/ notified' # notified)
            => /\ running # 0
               /\ cyc[running].pc \in {"notify", "save"}
               /\ cyc[running].outcome \notin {"fetchfail", "extractfail"}
        /\ \A s \in Slots :
             (/\ AtReturn(cyc[s])
              /\ cyc[s].outcome \in {"fetchfail", "extractfail"}
              /\ cyc'[s] # cyc[s] /\ alive' /\ started' = started)
             => cyc'[s] = Free /\ LoopIdle'
        /\ started' = started + 1
             => \E s \in Slots :
                  [cyc'[s] EXCEPT !.overlapped = FALSE] = Started]_vars

\* A call that no other call overlapped, whose extraction threw after it had
\* downloaded an image, returning next to the store it started on, which an
\* earlier call of the run has written.
C7_Witness ==
  \E s \in Slots :
    /\ AtReturn(cyc[s]) /\ cyc[s].outcome = "extractfail"
    /\ cyc[s].dl # <<>> /\ store # <<>> /\ store = cyc[s].atStart
    /\ ~cyc[s].overlapped /\ started > 1

\* C8: at most one call of checkForNewProducts is in flight at any time.
C8_OneCycleInFlight == Cardinality(InFlight) <= 1

\* C9: over the calls of a run, one after the other, an image is downloaded
\* at most once for a product name: every download made so far for a name a call
\* has downloaded was made by a call still in flight, none by an earlier
\* call that ended or was abandoned.
C9_ImageDownloadedOnce ==
  \A s \in Slots : \A n \in Range(cyc[s].dl) :
    downloads[n] = DownloadsInFlight(n)

\* C10: every step leaves the records that were in the store in place,
\* unchanged and in the same order, and a step that writes the store adds
\* the new records of the writing call behind them.
C10_AppendOnly ==
  [][/\ IsPrefix(store, store')
     /\ store' # store
          => running # 0 /\ store' = store \o cyc[running].newProducts]_vars

\* A call returning from a successful store write that kept the record of A
\* with its first image while the page showed another image and price for A.
C10_Witness ==
  \E s \in Slots :
    /\ AtReturn(cyc[s]) /\ cyc[s].saved = "ok" /\ cyc[s].cached # <<>>
    /\ Len(cyc[s].elems) > 0
    /\ cyc[s].elems[1].name = "A" /\ cyc[s].elems[1].mainimage.path = "a2.png"
    /\ Len(store) > Len(cyc[s].cached)
    /\ store[1].name = "A" /\ store[1].imageUrl.path = "a.png"
    /\ store[1].price = "$1"

\* C11: when the store write of a call fails, that call has sent no
\* notification for its records.
C11_NoNotificationWithoutSave ==
  \A s \in Slots : SaveFailed(cyc[s]) => cyc[s].sent = <<>>

\* C12: with the `slack` section of config.json absent, or its enableBot
\* false, every sendToSlack returns at its guard: no post, no rejection.
C12_UnconfiguredIsNoOp ==
  (~config.slack \/ config.enableBot = "false")
    => \A s \in Slots : \A k \in 1..Len(cyc[s].slack) :
         cyc[s].slack[k] = "disabled"

\* C13: a post that fails is caught and logged and changes nothing else: with
\* a config that posts, no sendToSlack rejects, when it is called or when its
\* post settles; a call that notified at all is at its store write with every
\* one of its new records notified, whatever becomes of the posts; once its
\* store write succeeded the records it notified are in the store; the step
\* in which a post settles leaves the store, the calls and the process as
\* they are; and notifyNewProduct is never called for a name the store holds.
C13_DeliveryFailureNonFatal ==
  /\ [](/\ \A k \in 1..Len(posts) :
             posts[k].state \in {"pending", "delivered", "logged"}
        /\ \A s \in Slots :
             LET c == cyc[s]
             IN /\ (config.slack /\ config.enableBot # "false")
                     => \A k \in 1..Len(c.slack) : c.slack[k] = "posted"
                /\ (c.pc \in {"save", "return"} /\ c.sent # <<>>)
                     => c.sent = NamesOf(c.newProducts)
                /\ (c.pc = "return" /\ c.saved = "ok")
                     => Range(c.sent) \subseteq NameSet(store))
  /\ [][/\ \A n \in Names :
            notified'[n] > notified[n] => n \notin NameSet(store)
        /\ (Len(posts') = Len(posts) /\ posts' # posts)
             => /\ store' = store /\ cyc' = cyc /\ alive' = alive
                /\ notified' = notified /\ torn' = torn]_vars

\* Three records were notified and written to the store, the post of the
\* first has failed since, and the process runs on.
C13_Witness ==
  /\ alive /\ ~Dying
  /\ Len(posts) = 3
  /\ posts[1].state = "logged"
  /\ \A k \in 1..3 : posts[k].name \in NameSet(store)

\* C14: whatever happens inside saveCache, a kill or a failing write, the
\* store file afterwards is a complete JSON document: the old one or the new.
C14_SaveAtomic == ~torn

\* The records of current whose name is the name of no record of known, in
\* the order of current.
Unknown(current, known) ==
  SelectSeq(current, LAMBDA p : \A q \in Range(known) : q.name # p.name)

\* C15: the filter returns the current records whose name equals, character
\* for character, the name of no known record, in their order; it leaves the
\* current records and the store as they were; applied again it returns the
\* same.
C15_DiffExact ==
  /\ [](\A s \in Slots :
          cyc[s].pc \in {"notify", "save", "return"}
            => /\ cyc[s].cached = store
               /\ cyc[s].newProducts = Unknown(cyc[s].current, store))
  /\ [][\A s \in Slots :
          /\ store' = store
          /\ cyc'[s].current = cyc[s].current
          /\ cyc[s].pc # "resume" => cyc'[s].newProducts = cyc[s].newProducts]_vars

\* The filter kept "a" and dropped "A" against a store that holds "A".
C15_Witness ==
  /\ cyc[1].pc = "notify"
  /\ "A" \in NameSet(store)
  /\ NamesOf(cyc[1].current) = <<"a", "A", "C">>
  /\ NamesOf(cyc[1].newProducts) = <<"a", "C">>

\* C16: a call that lost an image fetch persists nothing, so the product stays
\* out of the store by that call; a call whose fetches all succeeded
\* classifies every listed product the store does not hold as new, and at its
\* return that product is in the store and, the store having been non-empty,
\* notified; and with the timer firing for ever and the fetches succeeding
\* from some point on, every product that stays listed is persisted in the
\* end.
C16_RetryByRepetition ==
  /\ [](\A s \in Slots :
          LET c == cyc[s]
          IN /\ (AtReturn(c) /\ c.outcome = "imagefail")
                  => c.newProducts = <<>> /\ c.saved = ""
             /\ (InTail(c) /\ c.outcome = "ok")
                  => \A n \in NameSet(c.current) \ NameSet(c.cached) :
                       /\ n \in NameSet(c.newProducts)
                       /\ AtReturn(c) => n \in NameSet(store)
                       /\ (AtReturn(c) /\ c.cached # <<>>) => n \in Range(c.sent))
  /\ <>[]("C" \in NameSet(store))

\* A product whose image fetch failed in an earlier call has been classified
\* as new, notified and persisted by a call whose fetches all succeeded.
C16_Witness ==
  \E s \in Slots : \E n \in failed :
    /\ AtReturn(cyc[s]) /\ cyc[s].outcome = "ok" /\ cyc[s].saved = "ok"
    /\ n \in NameSet(cyc[s].newProducts)
    /\ n \in Range(cyc[s].sent)
    /\ n \in NameSet(store)

\* C17: in every reachable state the image file of every record of the store
\* is in the images directory.
C17_ImagesPresent ==
  \A k \in 1..Len(store) : store[k].imageId \in files

\* C18: with calls overlapping, the cache reload, the diff, the notifications
\* and the store write of a call run in one piece: one call at most is
\* between its reload and its return, and while it is there no other call
\* moves and the store is the one it loaded; so none of the records it
\* notifies and writes has a name the store holds, whatever an overlapping
\* call wrote before, and its write keeps every record of the store.  The
\* steps meant are those of a process that stays up.
C18_TailInOnePiece ==
  /\ [](\A s \in Slots :
          InTail(cyc[s])
            => /\ running = s
               /\ \A t \in Slots \ {s} : ~InTail(cyc[t])
               /\ cyc[s].pc \in {"notify", "save"}
                    => /\ cyc[s].cached = store
                       /\ NameSet(cyc[s].newProducts) \cap NameSet(store) = {})
  /\ [][(running # 0 /\ alive' /\ started' = started)
          => /\ \A t \in Slots \ {running} : cyc'[t] = cyc[t]
             /\ IsPrefix(store, store')]_vars

\* A call downloaded the image of a product that was new to it and, at its
\* reload, found the product written by a call that overlapped it.
C18_Witness ==
  \E s \in Slots : \E n \in Range(cyc[s].dl) :
    /\ AtReturn(cyc[s]) /\ cyc[s].outcome = "ok"
    /\ n \notin NameSet(cyc[s].snap)
    /\ n \in NameSet(cyc[s].cached)
    /\ n \notin NameSet(cyc[s].newProducts)
    /\ Count(NamesOf(store), n) = 1

\* C19, as claimed: every record a call has written to the store has a
\* cachedTime, the records written by the call that found the store empty
\* included.
C19_EveryRecordStamped ==
  \A s \in Slots :
    (AtReturn(cyc[s]) /\ cyc[s].saved = "ok")
      => \A k \in (Len(cyc[s].cached) + 1)..Len(store) :
           store[k].cachedTime # 0

\* C19, amended: the records a call wrote carry the clock reading of that
\* call as cachedTime when the call found the store non-empty, and carry no
\* cachedTime when it found the store empty; the records without cachedTime
\* come first in the store.
C19_StampedUnlessBootstrap ==
  /\ \A s \in Slots :
       (AtReturn(cyc[s]) /\ cyc[s].saved = "ok")
         => \A k \in (Len(cyc[s].cached) + 1)..Len(store) :
              store[k].cachedTime = IF cyc[s].cached = <<>> THEN 0 ELSE Now
  /\ \A k \in 1..Len(store) :
       store[k].cachedTime = 0 => \A j \in 1..k : store[j].cachedTime = 0

\* A call that found records without cachedTime in the store has written a
\* record with its own clock reading after them.
C19_Witness ==
  \E s \in Slots :
    /\ AtReturn(cyc[s]) /\ cyc[s].saved = "ok"
    /\ cyc[s].cached # <<>>
    /\ store[1].cachedTime = 0
    /\ store[Len(store)].cachedTime = Now
    /\ Now > 1

====
